---- MODULE Spec2Model ----
(***************************************************************************)
(* Electromagnetic coil launcher: the capsule, the acceleration stages,    *)
(* the physics engine, the data recorder and the simulation orchestrator   *)
(* (src/src/core, src/src/physics, src/src/services).                      *)
(*                                                                         *)
(* Numbers.  The program computes in floating point; the model computes    *)
(* in scaled integers.  Lengths are counted in units of 0.0005 m (so the   *)
(* 1 mm floor is 2, the half gradient step dx/2 is 1 and the 1 cm minimal  *)
(* activation distance is 20), times in ticks, currents in units of        *)
(* 0.001 A (so the thresholds 0.001 A and 0.1 A are 1 and 100).  The       *)
(* remaining quantities carry the fixed-point scales of Units.  A quotient *)
(* of signed quantities is rounded towards zero (TDiv), which keeps the    *)
(* sign symmetry of the floating point quotient.  np.sin, np.cos and       *)
(* np.exp are sampled: one period of the sine is 8 phase units, and the    *)
(* exponential is tabulated at the same unit.                              *)
(***************************************************************************)
EXTENDS Integers, Sequences, FiniteSets, TLC

VARIABLES
    time,                   \* SimulationService.time
    dt,                     \* SimulationService.dt
    capsule,                \* the Capsule object shared with the service
    stages,                 \* the mutable part of each AccelerationStage
    lists,                  \* the list objects: DataService.history and the copies results own
    metadata,               \* DataService.metadata
    initial_capsule_state,  \* SimulationService._initial_capsule_state
    pc,                     \* "idle", or "running" inside the loop of run
    max_time,               \* the argument of the run call in progress
    results,                \* the SimulationResult objects handed to the caller so far
    call,                   \* the last operation called, its arguments and its outcome
    calls,                  \* number of operations called so far
    returned,               \* what each of these results was worth when it was returned
    run_start,              \* what the run call in progress (or the last one) started from
    fresh_runs              \* what each run of a service just built ended with

vars == <<time, dt, capsule, stages, lists, metadata, initial_capsule_state,
          pc, max_time, results, call, calls, returned, run_start,
          fresh_runs>>

-----------------------------------------------------------------------------
(* Bounds of the model. *)

MaxDt == 2
MaxRunTime == 7
MaxCalls == 3
TubeLength == 90

(* Fixed-point scales: m for inductances, amp for the discharge amplitude,  *)
(* omega for the natural frequency, force for the electromagnetic force,   *)
(* exp and trig for the sampled exponential and sine.                      *)
Units == [m |-> 100, amp |-> 60, omega |-> 16, force |-> 20, exp |-> 100, trig |-> 4]

-----------------------------------------------------------------------------
(* Program constants, in the units above. *)

PiNum == 22
PiDen == 7
Mu0 == 1
RhoAluminum == 40
WallThickness == 20
RhoCopper == 4
WireDiameter == 3
MinActivationDistance == 20
MinDistance == 2
HalfDx == 1
DampingDen == 10
StageCurrentThreshold == 100
CapsuleCurrentThreshold == 1
VelocityThreshold == 1
DragDen == 2
None == -1

-----------------------------------------------------------------------------
(* Arithmetic helpers. *)

\* the element of a one-element set; {e(v) : v \in {a}} is e(a) with a evaluated once
Only(S) == CHOOSE x \in S : TRUE

Abs(x) == Only({IF v < 0 THEN -v ELSE v : v \in {x}})

Max(a, b) == Only({IF v >= w THEN v ELSE w : v \in {a}, w \in {b}})

\* a / b for b > 0, rounded towards zero
TDiv(a, b) == Only({IF v >= 0 THEN v \div b ELSE -((-v) \div b) : v \in {a}})

\* np.sqrt on a non-negative number, rounded down
ISqrt(n) == Only({(CHOOSE r \in 0..v : r * r <= v /\ (r + 1) * (r + 1) > v) : v \in {n}})

SinTable == <<0, 3, 4, 3, 0, -3, -4, -3>>
CosTable == <<4, 3, 0, -3, -4, -3, 0, 3>>
ExpTable == <<100, 46, 21, 10, 4, 2, 1>>

Sin(phase) == SinTable[(phase % 8) + 1]
Cos(phase) == CosTable[(phase % 8) + 1]
ExpNeg(x) == IF x < Len(ExpTable) THEN ExpTable[x + 1] ELSE 0

-----------------------------------------------------------------------------
(* Construction: CoilProperties, Capsule, AccelerationStage. *)

CoilProperties(turns, diameter, length, resistance, position) ==
    [turns |-> turns, diameter |-> diameter, length |-> length,
     resistance |-> resistance, position |-> position]

\* CoilProperties.__post_init__
ValidProperties(p) == p.turns > 0 /\ p.diameter > 0 /\ p.length > 0

\* Capsule._calculate_resistance
CapsuleResistance(diameter, length) ==
    LET current_path == (PiNum * diameter) \div PiDen
        effective_area == (PiNum * diameter * WallThickness) \div PiDen
    IN  (RhoAluminum * current_path) \div effective_area

\* Capsule.__init__, for valid arguments
NewCapsule(mass, diameter, length) ==
    [mass |-> mass, position |-> 0, velocity |-> 0, current |-> 0,
     properties |-> CoilProperties(1, diameter, length,
                                   CapsuleResistance(diameter, length), 0)]

\* AccelerationStage._calculate_copper_resistance
CopperResistance(turns, diameter, length) ==
    LET wire_area == (PiNum * WireDiameter * WireDiameter) \div (PiDen * 4)
        wire_length_per_turn == (PiNum * diameter) \div PiDen
        total_wire_length == turns * wire_length_per_turn
    IN  (RhoCopper * total_wire_length) \div wire_area

\* The stages handed to the service: the arguments of AccelerationStage(...)
StageArgs == <<
    [stage_id |-> 0, position |-> 40, turns |-> 4, diameter |-> 16, length |-> 30,
     capacitance |-> 2, voltage |-> 400],
    [stage_id |-> 1, position |-> 70, turns |-> 1, diameter |-> 4, length |-> 10,
     capacitance |-> 25, voltage |-> 400] >>

StageIds == 1..Len(StageArgs)

\* AccelerationStage.__init__: the fields that are never assigned again
MakeStage(a) ==
    [stage_id |-> a.stage_id, capacitance |-> a.capacitance, voltage |-> a.voltage,
     properties |-> CoilProperties(a.turns, a.diameter, a.length,
                        CopperResistance(a.turns, a.diameter, a.length), a.position)]

\* the fixed fields of stage s
StageFixed(s) == MakeStage(StageArgs[s])

\* AccelerationStage.__init__ and Coil.__init__: the fields that change
NewStage == [is_active |-> FALSE, activation_time |-> None, current |-> 0]

\* Coil._calculate_inductance (Coil.inductance caches it; the geometry never changes)
Inductance(p) ==
    LET radius == p.diameter \div 2
    IN  (Mu0 * p.turns * p.turns * PiNum * radius * radius) \div (PiDen * p.length)

\* a stored energy without the square of the voltage
StoredEnergyLinear(fx) == (fx.capacitance * fx.voltage) \div 2

\* AccelerationStage.stored_energy
StoredEnergyOf(fx) == (fx.capacitance * fx.voltage * fx.voltage) \div 2

StoredEnergy(s) == StoredEnergyOf(StageFixed(s))

-----------------------------------------------------------------------------
(* AccelerationStage: activation and the RLC discharge. *)

\* AccelerationStage.activate
Activate(st, t) == [st EXCEPT !.activation_time = t, !.is_active = TRUE]

\* a stage reset that leaves the activation time in place
StageResetKeepingTime(st) == [st EXCEPT !.is_active = FALSE, !.current = 0]

\* AccelerationStage.reset
StageResetState(st) == [st EXCEPT !.is_active = FALSE, !.activation_time = None, !.current = 0]

\* the guard that opens get_current and get_current_derivative
Quiet(st, t) == ~st.is_active \/ st.activation_time = None \/ t < st.activation_time

\* omega_0 = 1 / np.sqrt(L * C)
Omega0(L, C) == Units.omega \div ISqrt(L * C)

\* alpha = R / (2 * L)
Alpha(R, L) == R \div (2 * L)

\* omega_d = np.sqrt(omega_0**2 - alpha**2)
OmegaD(omega_0, alpha) == ISqrt(omega_0 * omega_0 - alpha * alpha)

\* underdamped: (V / (omega_d * L)) * exp(-alpha * dt) * sin(omega_d * dt)
UnderdampedCurrent(V, L, alpha, omega_d, d) ==
    TDiv(((V * Units.amp) \div (omega_d * L)) * ExpNeg(alpha * d) * Sin(omega_d * d),
         Units.exp * Units.trig)

\* critically damped: (V / L) * dt * exp(-alpha * dt)
CriticalCurrent(V, L, alpha, d) ==
    TDiv(((V * Units.amp) \div L) * d * ExpNeg(alpha * d), Units.exp)

\* the three branches of get_current
BranchCurrent(V, L, alpha, omega_0, d) ==
    IF alpha < omega_0 THEN UnderdampedCurrent(V, L, alpha, OmegaD(omega_0, alpha), d)
    ELSE IF alpha = omega_0 THEN CriticalCurrent(V, L, alpha, d)
    ELSE 0

\* get_current past its guard: L, C, R, then omega_0 and alpha, then the branch
DischargeCurrent(V, L, R, C, d) == BranchCurrent(V, L, Alpha(R, L), Omega0(L, C), d)

\* a get_current that measures the discharge from time zero, not from the activation
GetCurrentFromStart(fx, st, t) ==
    IF ~st.is_active THEN 0
    ELSE Max(0, DischargeCurrent(fx.voltage, Inductance(fx.properties),
                                 fx.properties.resistance, fx.capacitance, t))

\* AccelerationStage.get_current, on a stage with fixed fields fx and state st
GetCurrentOf(fx, st, t) ==
    IF Quiet(st, t) THEN 0
    ELSE Max(0, DischargeCurrent(fx.voltage, Inductance(fx.properties),
                                 fx.properties.resistance, fx.capacitance,
                                 t - st.activation_time))

GetCurrent(s, st, t) == GetCurrentOf(StageFixed(s), st, t)

\* underdamped: amplitude * exp_term * (cos_term - sin_term)
UnderdampedDerivative(V, L, alpha, omega_d, d) ==
    TDiv(((V * Units.amp) \div (omega_d * L)) * ExpNeg(alpha * d)
             * (omega_d * Cos(omega_d * d) - alpha * Sin(omega_d * d)),
         Units.exp * Units.trig)

\* critically damped: (V / L) * exp(-alpha * dt) * (1 - alpha * dt)
CriticalDerivative(V, L, alpha, d) ==
    TDiv(((V * Units.amp) \div L) * ExpNeg(alpha * d) * (1 - alpha * d), Units.exp)

\* the three branches of get_current_derivative
BranchDerivative(V, L, alpha, omega_0, d) ==
    IF alpha < omega_0 THEN UnderdampedDerivative(V, L, alpha, OmegaD(omega_0, alpha), d)
    ELSE IF alpha = omega_0 THEN CriticalDerivative(V, L, alpha, d)
    ELSE 0

DischargeDerivative(V, L, R, C, d) == BranchDerivative(V, L, Alpha(R, L), Omega0(L, C), d)

\* AccelerationStage.get_current_derivative
GetCurrentDerivativeOf(fx, st, t) ==
    IF Quiet(st, t) THEN 0
    ELSE DischargeDerivative(fx.voltage, Inductance(fx.properties),
                             fx.properties.resistance, fx.capacitance,
                             t - st.activation_time)

GetCurrentDerivative(s, st, t) == GetCurrentDerivativeOf(StageFixed(s), st, t)

-----------------------------------------------------------------------------
(* PhysicsEngine. *)

\* PhysicsEngine._calculate_overlapping_inductance
OverlappingInductance(p1, p2, distance) ==
    LET r1 == p1.diameter \div 2
        r2 == p2.diameter \div 2
        reference_length == Max(p1.length, p2.length)
        \* overlap = max(0, 1 - distance / reference_length), times reference_length
        overlap == Max(0, reference_length - distance)
    IN  (Units.m * Mu0 * ISqrt(r1 * r2) * ISqrt(p1.turns * p2.turns) * overlap)
            \div reference_length

\* PhysicsEngine._calculate_far_field_inductance
FarFieldInductance(p1, p2, distance) ==
    LET r1 == p1.diameter \div 2
        r2 == p2.diameter \div 2
        \* mu_0 * pi * r1^2 * r2^2 * sqrt(n1 * n2) / distance^3, the divisions one by one
    IN  (((Units.m * Mu0 * PiNum * r1 * r1 * r2 * r2 * ISqrt(p1.turns * p2.turns))
            \div (PiDen * distance)) \div distance) \div distance

\* PhysicsEngine.calculate_mutual_inductance raises ValueError on these distances
NegativeDistance(distance) == distance < 0

\* PhysicsEngine.calculate_mutual_inductance, for distance >= 0
MutualInductance(p1, p2, distance) ==
    IF distance < Max(p1.length, p2.length)
    THEN OverlappingInductance(p1, p2, distance)
    ELSE FarFieldInductance(p1, p2, distance)

\* dm_dx = (m_plus - m_minus) / dx
CentralDifference(p1, p2, distance) ==
    TDiv(MutualInductance(p1, p2, distance + HalfDx)
             - MutualInductance(p1, p2, distance - HalfDx),
         2 * HalfDx)

\* PhysicsEngine.calculate_force, for distance >= dx/2
CalculateForce(p1, p2, distance, current1, current2) ==
    IF current1 = 0 \/ current2 = 0 THEN 0
    ELSE TDiv(-(current1 * current2 * CentralDifference(p1, p2, distance)),
              Units.m * Units.force)

\* Capsule.update_position
UpdatePositionOf(cap, new_position) ==
    [cap EXCEPT !.position = new_position,
                !.properties = CoilProperties(cap.properties.turns, cap.properties.diameter,
                                   cap.properties.length, cap.properties.resistance,
                                   new_position)]

\* Capsule.update_velocity
UpdateVelocityOf(cap, new_velocity) == [cap EXCEPT !.velocity = new_velocity]

\* an update_kinematics that sets the velocity first and moves with the new velocity
UpdateKinematicsVelocityFirst(cap, force, step) ==
    LET acceleration == TDiv(force, cap.mass)
        new_velocity == cap.velocity + acceleration * step
        new_position == cap.position + new_velocity * step
                            + TDiv(acceleration * step * step, 2)
    IN  UpdateVelocityOf(UpdatePositionOf(cap, new_position), new_velocity)

\* PhysicsEngine.update_kinematics
UpdateKinematicsOf(cap, force, step) ==
    LET acceleration == TDiv(force, cap.mass)
        new_position == cap.position + cap.velocity * step
                            + TDiv(acceleration * step * step, 2)
        new_velocity == cap.velocity + acceleration * step
    IN  UpdateVelocityOf(UpdatePositionOf(cap, new_position), new_velocity)

\* Capsule.apply_force
ApplyForceOf(cap, force, time_step) ==
    LET acceleration == TDiv(force, cap.mass)
        velocity == cap.velocity + acceleration * time_step
        position == cap.position + velocity * time_step
                        + TDiv(acceleration * time_step * time_step, 2)
    IN  UpdatePositionOf([cap EXCEPT !.velocity = velocity, !.position = position], position)

-----------------------------------------------------------------------------
(* SimulationService: the parts of one step. *)

RECURSIVE SumOver(_, _)
\* sum(f(s) for s in stages), f given as a function over the stage ids
SumOver(f, ids) ==
    IF ids = {} THEN 0
    ELSE LET s == CHOOSE x \in ids : TRUE IN f[s] + SumOver(f, ids \ {s})

\* activation_distance = max(stage.properties.length, 0.01)
ActivationDistance(p) == Max(p.length, MinActivationDistance)

\* an activation test that does not look at is_active
WithinRange(cap, p, st) == Abs(cap.position - p.position) <= ActivationDistance(p)

\* an activation test that does not look at the distance
ApproachedAnywhere(cap, p, st) == ~st.is_active

\* the test that activates a stage in _check_stage_activations
Approached(cap, p, st) ==
    ~st.is_active /\ Abs(cap.position - p.position) <= ActivationDistance(p)

\* an activation check that also switches off the stages the capsule is away from
CheckStageActivationsSwitchingOff(cap, stgs, t) ==
    [s \in StageIds |->
        IF Approached(cap, StageFixed(s).properties, stgs[s])
        THEN Activate(stgs[s], t)
        ELSE IF WithinRange(cap, StageFixed(s).properties, stgs[s])
        THEN stgs[s]
        ELSE StageResetState(stgs[s])]

\* SimulationService._check_stage_activations
CheckStageActivations(cap, stgs, t) ==
    [s \in StageIds |->
        IF Approached(cap, StageFixed(s).properties, stgs[s])
        THEN Activate(stgs[s], t)
        ELSE stgs[s]]

\* a distance without the floor of 1 mm
UnclampedDistance(cap, p) == Abs(cap.position - p.position)

\* distance = max(0.001, abs(capsule.position - stage.properties.position))
ClampedDistance(cap, p) == Max(MinDistance, Abs(cap.position - p.position))

\* SimulationService._calculate_mutual_inductance_gradient
MutualInductanceGradient(cap, p, distance) ==
    TDiv(MutualInductance(p, cap.properties, Max(MinDistance, distance + HalfDx))
             - MutualInductance(p, cap.properties, Max(MinDistance, distance - HalfDx)),
         2 * HalfDx)

\* every distance a step hands to calculate_mutual_inductance for one active stage:
\* the clamped distance itself (induction), the two of the gradient, and the two
\* that calculate_force derives from the clamped distance
DistancesUsed(cap, p) ==
    UNION {{distance,
            Max(MinDistance, distance + HalfDx), Max(MinDistance, distance - HalfDx),
            distance + HalfDx, distance - HalfDx} : distance \in {ClampedDistance(cap, p)}}

\* induced_emf + motional_emf of one active stage, at the clamped distance
EmfAt(cap, p, distance, stage_current, stage_current_rate) ==
    MutualInductance(p, cap.properties, distance) * stage_current_rate
        + cap.velocity * stage_current * MutualInductanceGradient(cap, p, distance)

\* the EMF one stage adds in _update_capsule_current
StageEmf(cap, fx, st, t) ==
    IF ~st.is_active THEN 0
    ELSE EmfAt(cap, fx.properties, ClampedDistance(cap, fx.properties),
               GetCurrentOf(fx, st, t), GetCurrentDerivativeOf(fx, st, t))

\* the exponential approach of the capsule current to induced_current
Smoothed(current, induced_current) ==
    current + TDiv(induced_current - current, DampingDen)

\* SimulationService._update_capsule_current
UpdateCapsuleCurrent(cap, stgs, t) ==
    IF cap.properties.resistance > 0
    THEN [cap EXCEPT !.current =
             Smoothed(cap.current,
                      TDiv(SumOver([s \in StageIds |->
                                       StageEmf(cap, StageFixed(s), stgs[s], t)], StageIds),
                           cap.properties.resistance * Units.m))]
    ELSE cap

\* the force and the drag one active stage adds, its current being stage_current
ForceAt(cap, p, distance, stage_current) ==
    IF Abs(stage_current) > StageCurrentThreshold
       /\ Abs(cap.current) > CapsuleCurrentThreshold
    THEN CalculateForce(p, cap.properties, distance, stage_current, cap.current)
         + (IF Abs(cap.velocity) > VelocityThreshold
            THEN -TDiv(cap.velocity, DragDen)
            ELSE 0)
    ELSE 0

\* what one stage adds to total_force in _calculate_total_force
StageForce(cap, fx, st, t) ==
    IF ~st.is_active THEN 0
    ELSE ForceAt(cap, fx.properties, ClampedDistance(cap, fx.properties),
                 GetCurrentOf(fx, st, t))

\* SimulationService._calculate_total_force
CalculateTotalForce(cap, stgs, t) ==
    SumOver([s \in StageIds |-> StageForce(cap, StageFixed(s), stgs[s], t)], StageIds)

\* DataService.record: the record it appends
Record(t, cap, stgs, force) ==
    [time |-> t,
     position |-> cap.position,
     velocity |-> cap.velocity,
     acceleration |-> TDiv(force, cap.mass),
     force |-> force,
     kinetic_energy |-> (cap.mass * cap.velocity * cap.velocity) \div 2,
     capsule_current |-> cap.current,
     active_stages |-> Cardinality({s \in StageIds : stgs[s].is_active}),
     total_stage_current |->
         SumOver([s \in StageIds |->
                     IF stgs[s].is_active THEN GetCurrent(s, stgs[s], t) ELSE 0], StageIds)]

\* a step whose record carries the time at the end of the step
StepDoneStampedAfter(cap, stgs, t, force) ==
    /\ capsule' = cap
    /\ stages' = stgs
    /\ lists' = [lists EXCEPT !.data = Append(lists.data, Record(t + dt, cap, stgs, force))]

\* a step whose record takes the place of the last record
StepDoneOverwriting(cap, stgs, t, force) ==
    /\ capsule' = cap
    /\ stages' = stgs
    /\ lists' = [lists EXCEPT !.data =
                     IF lists.data = <<>>
                     THEN <<Record(t, cap, stgs, force)>>
                     ELSE [lists.data EXCEPT ![Len(lists.data)] = Record(t, cap, stgs, force)]]

\* what _step leaves behind: the capsule, the stages and one record more
StepDone(cap, stgs, t, force) ==
    /\ capsule' = cap
    /\ stages' = stgs
    /\ lists' = [lists EXCEPT !.data = Append(lists.data, Record(t, cap, stgs, force))]

\* a step that checks the activations last, after the current, the force and the move
StepActivatingLast(cap, stgs, t, step) ==
    \E capsule1 \in {UpdateCapsuleCurrent(cap, stgs, t)} :
    \E total_force \in {CalculateTotalForce(capsule1, stgs, t)} :
    \E capsule2 \in {UpdateKinematicsOf(capsule1, total_force, step)} :
    \E stages1 \in {CheckStageActivations(capsule2, stgs, t)} :
        StepDone(capsule2, stages1, t, total_force)

\* a step that records the capsule as it is before update_kinematics moves it
StepRecordingBeforeMove(cap, stgs, t, step) ==
    \E stages1 \in {CheckStageActivations(cap, stgs, t)} :
    \E capsule1 \in {UpdateCapsuleCurrent(cap, stages1, t)} :
    \E total_force \in {CalculateTotalForce(capsule1, stages1, t)} :
    \E capsule2 \in {UpdateKinematicsOf(capsule1, total_force, step)} :
        /\ capsule' = capsule2
        /\ stages' = stages1
        /\ lists' = [lists EXCEPT !.data = Append(lists.data,
                                                  Record(t, capsule1, stages1, total_force))]

\* SimulationService._step: the four calls in their order, then data.record
Step(cap, stgs, t, step) ==
    \E stages1 \in {CheckStageActivations(cap, stgs, t)} :
    \E capsule1 \in {UpdateCapsuleCurrent(cap, stages1, t)} :
    \E total_force \in {CalculateTotalForce(capsule1, stages1, t)} :
    \E capsule2 \in {UpdateKinematicsOf(capsule1, total_force, step)} :
        StepDone(capsule2, stages1, t, total_force)

-----------------------------------------------------------------------------
(* DataService. *)

\* metadata.get('initial_energy', 0.0)
InitialEnergyOf(md) ==
    IF \E p \in md : p[1] = "initial_energy"
    THEN (CHOOSE p \in md : p[1] = "initial_energy")[2]
    ELSE 0

\* DataService.set_initial_energy
SetInitialEnergy(md, energy) ==
    {p \in md : p[1] /= "initial_energy"} \cup {<<"initial_energy", energy>>}

\* history=self.history: the result shares the recorder's own list
HistoryAlias(ls) == [ref |-> 0, lists |-> ls]

\* history=self.history.copy(): a new list object holding the same records;
\* reference 0 is the recorder's own list, reference i > 0 is the i-th copy
HistoryCopy(ls) ==
    [ref |-> Len(ls.copies) + 1, lists |-> [ls EXCEPT !.copies = Append(ls.copies, ls.data)]]

\* SimulationResult(...) as get_results builds it from the last record
ResultOf(final_record, initial_energy, history) ==
    [final_velocity |-> final_record.velocity,
     final_position |-> final_record.position,
     total_time |-> final_record.time,
     initial_energy |-> initial_energy,
     history |-> history]

\* get_results on a recorder that holds records, the copy of the history being made
ResultWith(ls, md, copy) ==
    [raised |-> FALSE,
     result |-> ResultOf(ls.data[Len(ls.data)], InitialEnergyOf(md), copy.ref),
     lists |-> copy.lists]

\* a get_results that answers an empty recorder with a zero-filled result
GetResultsZeroFilled(ls, md) ==
    IF ls.data = <<>>
    THEN [raised |-> FALSE,
          result |-> ResultOf([velocity |-> 0, position |-> 0, time |-> 0],
                              InitialEnergyOf(md), 0),
          lists |-> ls]
    ELSE ResultWith(ls, md, HistoryCopy(ls))

\* DataService.get_results
GetResults(ls, md) ==
    IF ls.data = <<>>
    THEN [raised |-> TRUE, result |-> 0, lists |-> ls]
    ELSE ResultWith(ls, md, HistoryCopy(ls))

\* the list object a reference designates
ListAt(ls, ref) == IF ref = 0 THEN ls.data ELSE ls.copies[ref]

\* what a result is worth: its fields, with the records of the list it refers to
ResultView(r, ls) ==
    [final_velocity |-> r.final_velocity, final_position |-> r.final_position,
     total_time |-> r.total_time, initial_energy |-> r.initial_energy,
     records |-> ListAt(ls, r.history)]

\* SimulationResult.get_time_array, get_position_array, get_velocity_array,
\* get_force_array, get_energy_array: one entry per record of the history, in order
GetTimeArray(history) == [i \in 1..Len(history) |-> history[i].time]
GetPositionArray(history) == [i \in 1..Len(history) |-> history[i].position]
GetVelocityArray(history) == [i \in 1..Len(history) |-> history[i].velocity]
GetForceArray(history) == [i \in 1..Len(history) |-> history[i].force]
GetEnergyArray(history) == [i \in 1..Len(history) |-> history[i].kinetic_energy]

\* the record of one call: the operation, its arguments, its outcome, its value
CalledWith(op, s, a, b, c, outcome, value) ==
    [op |-> op, stage |-> s, a |-> a, b |-> b, c |-> c, outcome |-> outcome,
     value |-> value]

\* a call of at most two arguments
Called(op, s, a, b, outcome, value) == CalledWith(op, s, a, b, 0, outcome, value)

\* the caller receives what get_results hands back, or its error
Handed(got, op, m) ==
    IF got.raised
    THEN /\ call' = Called(op, 0, m, 0, "ValueError", 0)
         /\ UNCHANGED <<lists, results, returned>>
    ELSE /\ call' = Called(op, 0, m, 0, "returned", 0)
         /\ lists' = got.lists
         /\ results' = Append(results, got.result)
         /\ returned' = Append(returned, ResultView(got.result, got.lists))

-----------------------------------------------------------------------------
(* The inputs the operations are called with. *)

CapsuleArgs == [mass |-> 4, diameter |-> 14, length |-> 8]
InitPositions == {0, 12}
MaxTimes == {-1, 0, MaxRunTime \div 2, MaxRunTime}
PositionArgs == {30, 40, TubeLength, TubeLength + 21}
ForceArgs == {-8, 8}
StepArgs == {1}
CurrentArgs == {-1, 0, 5}
ActivationTimes == {0, 2}
QueryTimes == {1, 3}

-----------------------------------------------------------------------------
(* The state after construction: Capsule(...), optionally update_position,  *)
(* AccelerationStage(...) for each stage, SimulationService(...).           *)

\* Capsule(...) then update_position(x0): the capsule the service is built with
BuiltCapsule(x0) ==
    UpdatePositionOf(NewCapsule(CapsuleArgs.mass, CapsuleArgs.diameter, CapsuleArgs.length), x0)

Init ==
    /\ time = 0
    /\ dt \in 1..MaxDt
    /\ \E x0 \in InitPositions : capsule = BuiltCapsule(x0)
    /\ stages = [s \in StageIds |-> NewStage]
    /\ lists = [data |-> <<>>, copies |-> <<>>]
    /\ metadata = {}
    /\ initial_capsule_state = [position |-> capsule.position,
                                velocity |-> capsule.velocity,
                                current |-> capsule.current]
    /\ pc = "idle"
    /\ max_time = 0
    /\ results = <<>>
    /\ call = Called("init", 0, 0, 0, "ok", 0)
    /\ calls = 0
    /\ returned = <<>>
    /\ run_start = [time |-> 0, steps |-> 0, energy |-> 0, fresh |-> FALSE,
                    after_reset |-> FALSE, after_run |-> FALSE, activated |-> {},
                    capsule |-> capsule, stages |-> stages]
    /\ fresh_runs = <<>>

\* the service, its capsule, its stages and its recorder are as just built
Fresh ==
    /\ time = 0
    /\ capsule = BuiltCapsule(initial_capsule_state.position)
    /\ stages = [s \in StageIds |-> NewStage]
    /\ lists.data = <<>>
    /\ metadata = {}

\* the caller may start an operation: nothing is running, and the call budget is not used up
Idle == pc = "idle" /\ calls < MaxCalls

-----------------------------------------------------------------------------
(* SimulationService.run: entry, one loop iteration, exit. *)

\* sum(stage.stored_energy for stage in self.stages)
TotalStoredEnergy == SumOver([s \in StageIds |-> StoredEnergy(s)], StageIds)

\* a loop test that looks one step ahead: the loop it guards stops a step early
LoopConditionEarly == time + dt < max_time /\ capsule.position < TubeLength

\* a loop test that lets the loop in when the time equals max_time
LoopConditionInclusive == time <= max_time /\ capsule.position < TubeLength

\* while self.time < max_time and self.capsule.position < self.tube_length
LoopCondition == time < max_time /\ capsule.position < TubeLength

\* the sum over the stages of 0.5 * capacitance * voltage^2, from the constructor arguments
HalfCVSquared ==
    SumOver([s \in StageIds |->
                (StageArgs[s].capacitance * StageArgs[s].voltage * StageArgs[s].voltage)
                    \div 2], StageIds)

\* a run that empties the recorder before its loop
RunStartClearing(m) ==
    /\ Idle
    /\ metadata' = SetInitialEnergy(metadata, TotalStoredEnergy)
    /\ pc' = "running"
    /\ max_time' = m
    /\ call' = Called("run", 0, m, 0, "running", 0)
    /\ calls' = calls + 1
    /\ run_start' = [time |-> time, steps |-> 0, energy |-> HalfCVSquared, fresh |-> Fresh,
                     after_reset |-> call.op = "reset",
                     after_run |-> call.op = "run" /\ call.outcome = "returned",
                     activated |-> {}, capsule |-> capsule, stages |-> stages]
    /\ lists' = [lists EXCEPT !.data = <<>>]
    /\ UNCHANGED <<time, dt, capsule, stages, initial_capsule_state, results, returned,
                   fresh_runs>>

RunStart(m) ==
    /\ Idle
    /\ metadata' = SetInitialEnergy(metadata, TotalStoredEnergy)
    /\ pc' = "running"
    /\ max_time' = m
    /\ call' = Called("run", 0, m, 0, "running", 0)
    /\ calls' = calls + 1
    /\ run_start' = [time |-> time, steps |-> 0, energy |-> HalfCVSquared, fresh |-> Fresh,
                     after_reset |-> call.op = "reset",
                     after_run |-> call.op = "run" /\ call.outcome = "returned",
                     activated |-> {}, capsule |-> capsule, stages |-> stages]
    /\ UNCHANGED <<time, dt, capsule, stages, lists, initial_capsule_state, results, returned,
                   fresh_runs>>

\* a time step scaled by the number of calls made so far, on whatever service
NextTimeByCalls(t, step) == t + step * calls

\* a time that is not advanced
NextTimeStalled(t, step) == t

\* self.time += self.dt
NextTime(t, step) == t + step

\* one iteration of the loop; the history is kept within MaxRunTime + MaxCalls + 1 records
RunStep ==
    /\ pc = "running"
    /\ LoopCondition
    /\ Len(lists.data) <= MaxRunTime + MaxCalls
    /\ Step(capsule, stages, time, dt)
    /\ time' = NextTime(time, dt)
    /\ run_start' = [run_start EXCEPT
                         !.steps = run_start.steps + 1,
                         !.activated = run_start.activated \cup
                             {s \in StageIds : ~stages[s].is_active /\ stages'[s].is_active}]
    /\ UNCHANGED <<dt, metadata, initial_capsule_state, pc, max_time, results, call, calls,
                   returned, fresh_runs>>

\* what a run ended with: its error, or the final velocity, the final position
\* and the number of records of the result it returned
RunOutcome(got, m) ==
    IF got.raised
    THEN [max_time |-> m, raised |-> TRUE,
          final_velocity |-> 0, final_position |-> 0, record_count |-> 0,
          total_time |-> 0, initial_energy |-> 0, records |-> <<>>]
    ELSE [max_time |-> m, raised |-> FALSE,
          final_velocity |-> got.result.final_velocity,
          final_position |-> got.result.final_position,
          record_count |-> Len(ListAt(got.lists, got.result.history)),
          total_time |-> got.result.total_time,
          initial_energy |-> got.result.initial_energy,
          records |-> ListAt(got.lists, got.result.history)]

RunExit ==
    /\ pc = "running"
    /\ ~LoopCondition
    /\ Handed(GetResults(lists, metadata), "run", max_time)
    /\ fresh_runs' = IF run_start.fresh
                      THEN Append(fresh_runs, RunOutcome(GetResults(lists, metadata), max_time))
                      ELSE fresh_runs
    /\ pc' = "idle"
    /\ UNCHANGED <<time, dt, capsule, stages, metadata, initial_capsule_state, max_time,
                   calls, run_start>>

-----------------------------------------------------------------------------
(* SimulationService.reset *)

\* a reset of the capsule that leaves its current as it is
ResetCapsuleKeepingCurrent(cap, saved) ==
    [cap EXCEPT !.position = saved.position,
                !.velocity = saved.velocity]

ResetCapsule(cap, saved) ==
    [cap EXCEPT !.position = saved.position,
                !.velocity = saved.velocity,
                !.current = saved.current]

\* a reset of the stages that forgets the activation times
ResetStagesKeepingTimes(stgs) ==
    [s \in StageIds |-> [stgs[s] EXCEPT !.is_active = FALSE]]

ResetStages(stgs) ==
    [s \in StageIds |-> [stgs[s] EXCEPT !.is_active = FALSE, !.activation_time = None]]

\* DataService.reset: history.clear() empties the list object in place
DataReset(ls) == [ls EXCEPT !.data = <<>>]

Reset ==
    /\ Idle
    /\ time' = 0
    /\ capsule' = ResetCapsule(capsule, initial_capsule_state)
    /\ stages' = ResetStages(stages)
    /\ lists' = DataReset(lists)
    /\ metadata' = {}
    /\ call' = Called("reset", 0, 0, 0, "ok", 0)
    /\ calls' = calls + 1
    /\ UNCHANGED <<dt, initial_capsule_state, pc, max_time, results, returned, run_start,
                   fresh_runs>>

-----------------------------------------------------------------------------
(* _step called on its own, outside run, as the unit tests call it.         *)

ServiceStep ==
    /\ Idle
    /\ Step(capsule, stages, time, dt)
    /\ call' = Called("_step", 0, 0, 0, "ok", 0)
    /\ calls' = calls + 1
    /\ UNCHANGED <<time, dt, metadata, initial_capsule_state, pc, max_time, results,
                   returned, run_start, fresh_runs>>

-----------------------------------------------------------------------------
(* The caller builds everything again from the same arguments: a new        *)
(* Capsule, new stages, a new SimulationService with its new DataService.   *)
(* The results handed back so far stay with the caller.                     *)

Rebuild ==
    /\ Idle
    /\ time' = 0
    /\ capsule' = BuiltCapsule(initial_capsule_state.position)
    /\ stages' = [s \in StageIds |-> NewStage]
    /\ lists' = [lists EXCEPT !.data = <<>>]
    /\ metadata' = {}
    /\ call' = Called("build", 0, 0, 0, "ok", 0)
    /\ calls' = calls + 1
    /\ UNCHANGED <<dt, initial_capsule_state, pc, max_time, results, returned, run_start,
                   fresh_runs>>

-----------------------------------------------------------------------------
(* Operations the caller applies to the capsule, a stage or the recorder    *)
(* between runs.                                                            *)

UpdatePosition(x) ==
    /\ Idle
    /\ capsule' = UpdatePositionOf(capsule, x)
    /\ call' = Called("update_position", 0, x, 0, "ok", 0)
    /\ calls' = calls + 1
    /\ UNCHANGED <<time, dt, stages, lists, metadata, initial_capsule_state, pc, max_time,
                   results, returned, run_start, fresh_runs>>

ApplyForce(f, step) ==
    /\ Idle
    /\ capsule' = ApplyForceOf(capsule, f, step)
    /\ call' = Called("apply_force", 0, f, step, "ok", 0)
    /\ calls' = calls + 1
    /\ UNCHANGED <<time, dt, stages, lists, metadata, initial_capsule_state, pc, max_time,
                   results, returned, run_start, fresh_runs>>

UpdateKinematics(f, step) ==
    /\ Idle
    /\ capsule' = UpdateKinematicsOf(capsule, f, step)
    /\ call' = Called("update_kinematics", 0, f, step, "ok", 0)
    /\ calls' = calls + 1
    /\ UNCHANGED <<time, dt, stages, lists, metadata, initial_capsule_state, pc, max_time,
                   results, returned, run_start, fresh_runs>>

\* a set_current that stores zero for a negative value
SetCurrentClamped(current, value) == IF value < 0 THEN 0 ELSE value

\* Coil.set_current: the current it leaves in the element
SetCurrentOf(current, value) == IF value < 0 THEN current ELSE value

\* Coil.set_current on the capsule (who = 0) or on stage who
SetCurrent(who, value) ==
    /\ Idle
    /\ IF who = 0
       THEN /\ capsule' = [capsule EXCEPT !.current = SetCurrentOf(capsule.current, value)]
            /\ UNCHANGED stages
       ELSE /\ stages' = [stages EXCEPT ![who].current =
                                            SetCurrentOf(stages[who].current, value)]
            /\ UNCHANGED capsule
    /\ call' = Called("set_current", who, value, 0,
                      IF value < 0 THEN "ValueError" ELSE "ok", 0)
    /\ calls' = calls + 1
    /\ UNCHANGED <<time, dt, lists, metadata, initial_capsule_state, pc, max_time,
                   results, returned, run_start, fresh_runs>>

StageActivate(s, t) ==
    /\ Idle
    /\ stages' = [stages EXCEPT ![s] = Activate(stages[s], t)]
    /\ call' = Called("activate", s, t, 0, "ok", 0)
    /\ calls' = calls + 1
    /\ UNCHANGED <<time, dt, capsule, lists, metadata, initial_capsule_state, pc, max_time,
                   results, returned, run_start, fresh_runs>>

StageReset(s) ==
    /\ Idle
    /\ stages' = [stages EXCEPT ![s] = StageResetState(stages[s])]
    /\ call' = Called("stage_reset", s, 0, 0, "ok", 0)
    /\ calls' = calls + 1
    /\ UNCHANGED <<time, dt, capsule, lists, metadata, initial_capsule_state, pc, max_time,
                   results, returned, run_start, fresh_runs>>

StageGetCurrent(s, t) ==
    /\ Idle
    /\ call' = Called("get_current", s, t, 0, "ok", GetCurrent(s, stages[s], t))
    /\ calls' = calls + 1
    /\ UNCHANGED <<time, dt, capsule, stages, lists, metadata, initial_capsule_state, pc,
                   max_time, results, returned, run_start, fresh_runs>>

StageGetCurrentDerivative(s, t) ==
    /\ Idle
    /\ call' = Called("get_current_derivative", s, t, 0, "ok",
                      GetCurrentDerivative(s, stages[s], t))
    /\ calls' = calls + 1
    /\ UNCHANGED <<time, dt, capsule, stages, lists, metadata, initial_capsule_state, pc,
                   max_time, results, returned, run_start, fresh_runs>>

\* DataService.get_results called on the recorder directly
DataGetResults ==
    /\ Idle
    /\ Handed(GetResults(lists, metadata), "get_results", 0)
    /\ calls' = calls + 1
    /\ UNCHANGED <<time, dt, capsule, stages, metadata, initial_capsule_state, pc, max_time,
                   run_start, fresh_runs>>

-----------------------------------------------------------------------------

Next ==
    \/ \E m \in MaxTimes : RunStart(m)
    \/ RunStep
    \/ RunExit
    \/ ServiceStep
    \/ Reset
    \/ Rebuild
    \/ \E x \in PositionArgs : UpdatePosition(x)
    \/ \E f \in ForceArgs, step \in StepArgs : ApplyForce(f, step)
    \/ \E f \in ForceArgs, step \in StepArgs : UpdateKinematics(f, step)
    \/ \E who \in {0} \cup StageIds, v \in CurrentArgs : SetCurrent(who, v)
    \/ \E s \in StageIds, t \in ActivationTimes : StageActivate(s, t)
    \/ \E s \in StageIds : StageReset(s)
    \/ \E s \in StageIds, t \in QueryTimes : StageGetCurrent(s, t)
    \/ \E s \in StageIds, t \in QueryTimes : StageGetCurrentDerivative(s, t)
    \/ DataGetResults

Spec == Init /\ [][Next]_vars

\* run is one synchronous call: once entered, its loop runs on until it exits
FairSpec == Spec /\ WF_vars(RunStep) /\ WF_vars(RunExit)

-----------------------------------------------------------------------------
(* Construction with arbitrary arguments: the caller builds a Capsule or an *)
(* AccelerationStage on its own; the object, when one is built, belongs to  *)
(* the caller and the service in use is not touched.                        *)

CapsuleMasses == {0, 4}
CapsuleDiameters == {-2, 0, 14}
CapsuleLengths == {0, 8}
StageTurns == {0, 4}
StageDiameters == {0, 16}
StageLengths == {-1, 30}
StageCapacitances == {-1, 0, 2}

\* only the call record and the call count change
ServiceUntouched ==
    UNCHANGED <<time, dt, capsule, stages, lists, metadata, initial_capsule_state, pc,
                max_time, results, returned, run_start, fresh_runs>>

\* Capsule.__init__: the mass check, then _calculate_resistance with its division
\* by the effective area, then CoilProperties with its __post_init__
CapsuleOutcome(mass, diameter, length) ==
    IF mass <= 0 THEN "ValueError"
    ELSE IF (PiNum * diameter * WallThickness) \div PiDen = 0 THEN "ZeroDivisionError"
    ELSE IF ~ValidProperties(CoilProperties(1, diameter, length, 0, 0)) THEN "ValueError"
    ELSE "ok"

\* AccelerationStage.__init__: _calculate_copper_resistance, then CoilProperties
\* with its __post_init__; capacitance and voltage are stored as given
StageOutcome(a) ==
    IF ~ValidProperties(CoilProperties(a.turns, a.diameter, a.length, 0, a.position))
    THEN "ValueError"
    ELSE "ok"

\* Capsule(mass, diameter, length)
ConstructCapsule(mass, diameter, length) ==
    /\ Idle
    /\ \E outcome \in {CapsuleOutcome(mass, diameter, length)} :
           call' = Called("Capsule", 0,
                          [mass |-> mass, diameter |-> diameter, length |-> length], 0,
                          outcome,
                          IF outcome = "ok" THEN NewCapsule(mass, diameter, length) ELSE None)
    /\ calls' = calls + 1
    /\ ServiceUntouched

\* AccelerationStage(stage_id, position, turns, diameter, length, capacitance, voltage)
ConstructStage(a) ==
    /\ Idle
    /\ \E outcome \in {StageOutcome(a)} :
           call' = Called("AccelerationStage", 0, a, 0, outcome,
                          IF outcome = "ok"
                          THEN [fixed |-> MakeStage(a), state |-> NewStage]
                          ELSE None)
    /\ calls' = calls + 1
    /\ ServiceUntouched

ConstructNext ==
    \/ \E mass \in CapsuleMasses, diameter \in CapsuleDiameters, length \in CapsuleLengths :
           ConstructCapsule(mass, diameter, length)
    \/ \E turns \in StageTurns, diameter \in StageDiameters, length \in StageLengths,
          capacitance \in StageCapacitances :
           ConstructStage([StageArgs[1] EXCEPT !.turns = turns, !.diameter = diameter,
                                               !.length = length,
                                               !.capacitance = capacitance])

ConstructSpec == Init /\ [][ConstructNext]_vars

-----------------------------------------------------------------------------
(* The physics engine called on its own, on two coils, with a distance and  *)
(* currents of the caller's choosing. The radii and turns of the coils have  *)
(* whole square roots, so that their inductances carry no rounding but that  *)
(* of the final division.                                                    *)

MaxDistance == 32

\* the coils handed to the engine: coil 1 with coil 2, or coil 1 with coil 3
EngineCoils == <<
    CoilProperties(1, 8, 8, 1, 0),
    CoilProperties(4, 18, 20, 1, 0),
    CoilProperties(1, 8, 12, 1, 0) >>

EnginePartners == 2..Len(EngineCoils)
DistanceArgs == -1..MaxDistance
ForceDistances == {0, 1, 30}
ForceCurrents == {-2, 0, 3}

\* PhysicsEngine.calculate_mutual_inductance: how the call ends
MutualInductanceOutcome(distance) ==
    IF NegativeDistance(distance) THEN "ValueError" ELSE "ok"

\* PhysicsEngine.calculate_force: how the call ends; with both currents non-zero it
\* asks for the mutual inductance at distance + dx/2 and at distance - dx/2
CalculateForceOutcome(distance, current1, current2) ==
    IF current1 = 0 \/ current2 = 0 THEN "ok"
    ELSE IF MutualInductanceOutcome(distance + HalfDx) /= "ok"
         THEN MutualInductanceOutcome(distance + HalfDx)
         ELSE MutualInductanceOutcome(distance - HalfDx)

\* physics.calculate_mutual_inductance(coil 1, coil s, distance)
EngineMutualInductance(s, distance) ==
    /\ Idle
    /\ \E outcome \in {MutualInductanceOutcome(distance)} :
           call' = Called("calculate_mutual_inductance", s, distance, 0, outcome,
                          IF outcome = "ok"
                          THEN MutualInductance(EngineCoils[1], EngineCoils[s], distance)
                          ELSE 0)
    /\ calls' = calls + 1
    /\ ServiceUntouched

\* physics.calculate_force(coil 1, coil s, distance, current1, current2)
EngineCalculateForce(s, distance, current1, current2) ==
    /\ Idle
    /\ \E outcome \in {CalculateForceOutcome(distance, current1, current2)} :
           call' = CalledWith("calculate_force", s, distance, current1, current2, outcome,
                              IF outcome = "ok"
                              THEN CalculateForce(EngineCoils[1], EngineCoils[s], distance,
                                                  current1, current2)
                              ELSE 0)
    /\ calls' = calls + 1
    /\ ServiceUntouched

EngineNext ==
    \/ \E s \in EnginePartners, distance \in DistanceArgs :
           EngineMutualInductance(s, distance)
    \/ \E s \in EnginePartners, distance \in ForceDistances,
          current1, current2 \in ForceCurrents :
           EngineCalculateForce(s, distance, current1, current2)

EngineSpec == Init /\ [][EngineNext]_vars

-----------------------------------------------------------------------------
(* Properties of run, reset and the recorder. *)

\* the last call was run, and it handed a result back
RunReturned == call.op = "run" /\ call.outcome = "returned"

\* C1, as stated: when run returns, the elapsed time is at most maxTime or the
\* capsule position is at least the tube length.
C1_ReturnsWithinMaxTime ==
    RunReturned => (time <= max_time \/ capsule.position >= TubeLength)

\* C1, amended: when run returns, the elapsed time is at least maxTime or the
\* capsule position is at least the tube length (the negation of the loop test).
C1_ReturnsPastMaxTimeOrTube ==
    RunReturned => (time >= max_time \/ capsule.position >= TubeLength)

\* a run that returned inside the tube, its time beyond maxTime
C1_Witness == RunReturned /\ time > max_time /\ capsule.position < TubeLength

\* C2: a run call that has entered its loop eventually leaves it: the loop
\* executes finitely many steps, whatever the stages do to the capsule.
C2_RunTerminates == (pc = "running") ~> (pc = "idle")

\* a run that returned after steps that drove the capsule backwards
C2_Witness ==
    /\ RunReturned
    /\ run_start.steps > 1
    /\ capsule.position < initial_capsule_state.position

\* C3: after reset the time is 0, the capsule has the position, velocity and
\* current it was constructed with, every stage is inactive with no activation
\* time, and the recorder holds no record and no initial energy.
C3_ResetRestores ==
    call.op = "reset" =>
        /\ time = 0
        /\ capsule.position = initial_capsule_state.position
        /\ capsule.velocity = initial_capsule_state.velocity
        /\ capsule.current = initial_capsule_state.current
        /\ \A s \in StageIds : ~stages[s].is_active /\ stages[s].activation_time = None
        /\ lists.data = <<>>
        /\ metadata = {}

\* a reset after a run whose steps activated a stage and moved the capsule
C3_Witness ==
    /\ call.op = "reset"
    /\ returned /= <<>>
    /\ returned[Len(returned)].final_position /= capsule.position
    /\ returned[Len(returned)].records[Len(returned[Len(returned)].records)].active_stages > 0

\* C4, as stated: the capsule's position equals the position held in its
\* embedded properties, in every reachable state.
C4_PositionsAgree == capsule.position = capsule.properties.position

\* C5, as stated: the current of the capsule and of every stage is never
\* negative.
C5_CurrentsNonNegative ==
    capsule.current >= 0 /\ \A s \in StageIds : stages[s].current >= 0

\* C6: every result handed back keeps the records and the fields it had when
\* it was returned, whatever is called on the service afterwards.
C6_ResultsKeepTheirWorth ==
    \A i \in 1..Len(results) : ResultView(results[i], lists) = returned[i]

\* two results, a reset between them: the recorder's list was emptied and has
\* grown again, shorter than what the first result holds
C6_Witness ==
    /\ Len(results) >= 2
    /\ returned[1].records /= <<>>
    /\ Len(returned[2].records) < Len(returned[1].records)

\* a step of the loop of run: one record more
IsRunStep == pc = "running" /\ Len(lists'.data) = Len(lists.data) + 1

\* C7: in a run step, a stage inactive at the start of the step becomes active
\* exactly when |capsule position - stage position| <= max(stage length, 1 cm),
\* with the current time as its activation time, and the capsule current and the
\* force of that step are computed with the stages so activated.
C7_ActivationOpensTheStep ==
    [][IsRunStep =>
          /\ \A s \in StageIds :
                ~stages[s].is_active =>
                    IF Abs(capsule.position - StageArgs[s].position)
                           <= Max(StageArgs[s].length, MinActivationDistance)
                    THEN stages'[s].is_active /\ stages'[s].activation_time = time
                    ELSE ~stages'[s].is_active
          /\ capsule'.current = UpdateCapsuleCurrent(capsule, stages', time).current
          /\ lists'.data[Len(lists'.data)].force =
                 CalculateTotalForce([capsule EXCEPT !.current = capsule'.current],
                                     stages', time)]_vars

\* inside one run, a step has just activated a stage: the last record counts
\* one active stage more than the record before it
C7_Witness ==
    /\ pc = "running"
    /\ run_start.steps >= 2
    /\ lists.data[Len(lists.data)].active_stages
           > lists.data[Len(lists.data) - 1].active_stages
    /\ \E s \in StageIds :
          stages[s].is_active /\ stages[s].activation_time = lists.data[Len(lists.data)].time

\* C8, as stated: the activation time of an active stage does not change as
\* long as the stage is not reset, whatever is called.
C8_ActivationTimeLatched ==
    [][\A s \in StageIds :
          (stages[s].is_active /\ stages'[s].is_active)
              => stages'[s].activation_time = stages[s].activation_time]_vars

\* C8, amended: the activation time of an active stage does not change as long
\* as the stage is not reset, except that activate(t) called on it sets it to t.
C8_LatchedButForActivate ==
    [][\A s \in StageIds :
          (stages[s].is_active /\ stages'[s].is_active)
              => IF calls' = calls + 1 /\ call'.op = "activate" /\ call'.stage = s
                 THEN stages'[s].activation_time = call'.a
                 ELSE stages'[s].activation_time = stages[s].activation_time]_vars

\* a stage active since the first step of a run of several steps has been asked
\* for its current, and answered with a current that flows
C8_Witness ==
    \E s \in StageIds :
        /\ stages[s].is_active
        /\ stages[s].activation_time = run_start.time
        /\ run_start.steps >= 2
        /\ lists.data /= <<>>
        /\ lists.data[Len(lists.data)].active_stages > 0
        /\ call.op = "get_current"
        /\ call.stage = s
        /\ call.value > 0

\* C9: get_results on a recorder without records raises and hands no result
\* back, called directly or at the end of run, an initial energy set or not.
C9_EmptyRecorderRaises ==
    [][(/\ lists.data = <<>>
        /\ \/ calls' = calls + 1 /\ call'.op = "get_results"
           \/ pc = "running" /\ pc' = "idle")
          => /\ call'.outcome = "ValueError"
             /\ results' = results
             /\ returned' = returned]_vars

\* get_results raised on a recorder that holds an initial energy and no record
C9_Witness ==
    /\ call.op = "get_results"
    /\ call.outcome = "ValueError"
    /\ InitialEnergyOf(metadata) > 0
    /\ lists.data = <<>>

\* C10: the initial energy of the result run returns is the sum over the stages
\* of capacitance * voltage^2 / 2 at the start of that run, whatever the number
\* of steps and the stages that fired.
C10_InitialEnergyAtRunStart ==
    RunReturned => results[Len(results)].initial_energy = run_start.energy

\* a run that returned after several steps, a stage having fired
C10_Witness ==
    /\ RunReturned
    /\ run_start.steps > 1
    /\ \E s \in StageIds : stages[s].is_active /\ stages[s].activation_time >= run_start.time
    /\ results[Len(results)].initial_energy > 0

RunFromIdleReturned ==
    /\ RunReturned
    /\ run_start.time = 0
    /\ run_start.steps >= 1
    /\ Len(returned[Len(returned)].records) = run_start.steps

\* C12: the total time of the result of such a run is at most maxTime, and is
\* below maxTime when the run ended with the capsule out of the tube.
C12_TotalTimeWithinMaxTime ==
    RunFromIdleReturned =>
        /\ returned[Len(returned)].total_time <= max_time
        /\ capsule.position >= TubeLength => returned[Len(returned)].total_time < max_time

\* such a run ended by the capsule leaving the tube, before maxTime
C12_Witness ==
    /\ RunFromIdleReturned
    /\ capsule.position >= TubeLength
    /\ time < max_time

-----------------------------------------------------------------------------
(* Properties of construction. *)

\* the last call was a constructor given a non-positive mass, turns, diameter or length
BuiltFromBadGeometry ==
    \/ /\ call.op = "Capsule"
       /\ call.a.mass <= 0 \/ call.a.diameter <= 0 \/ call.a.length <= 0
    \/ /\ call.op = "AccelerationStage"
       /\ call.a.turns <= 0 \/ call.a.diameter <= 0 \/ call.a.length <= 0

\* C13, as stated: constructing a Capsule or an AccelerationStage with mass <= 0,
\* turns <= 0, diameter <= 0 or length <= 0 (a Capsule of diameter 0 included) fails
\* with a validation error and with no other kind of error, and yields no object.
C13_BadGeometryRaisesValueError ==
    BuiltFromBadGeometry => call.outcome = "ValueError" /\ call.value = None

\* the last call was AccelerationStage(...) with a non-positive capacitance and
\* otherwise valid arguments
BuiltFromBadCapacitance ==
    /\ call.op = "AccelerationStage"
    /\ call.a.capacitance <= 0
    /\ call.a.turns > 0 /\ call.a.diameter > 0 /\ call.a.length > 0

\* C14, as stated: constructing an AccelerationStage with capacitance <= 0 fails
\* with a validation error at construction; no such stage comes to exist.
C14_BadCapacitanceRaisesValueError ==
    BuiltFromBadCapacitance => call.outcome = "ValueError"

-----------------------------------------------------------------------------
(* Properties of the elements. *)

\* the stored current of the capsule (who = 0) or of stage who
CurrentOf(cap, stgs, who) == IF who = 0 THEN cap.current ELSE stgs[who].current

\* C15: set_current(value) with value < 0 ends in a validation error and leaves the
\* stored current of the element as it was; with value >= 0 it stores exactly value.
C15_SetCurrentValidates ==
    [][call'.op = "set_current" /\ calls' = calls + 1 =>
           IF call'.a < 0
           THEN /\ call'.outcome = "ValueError"
                /\ CurrentOf(capsule', stages', call'.stage)
                       = CurrentOf(capsule, stages, call'.stage)
           ELSE /\ call'.outcome = "ok"
                /\ CurrentOf(capsule', stages', call'.stage) = call'.a]_vars

\* a negative value was refused on an element that carries a current
C15_Witness ==
    /\ call.op = "set_current"
    /\ call.a < 0
    /\ call.outcome = "ValueError"
    /\ CurrentOf(capsule, stages, call.stage) > 0

\* the last call asked a stage for its current or for the derivative of its current
StageAsked == call.op \in {"get_current", "get_current_derivative"}

\* C16: get_current(t) and get_current_derivative(t) return exactly 0 whenever the
\* stage is inactive or t is earlier than its latched activation time.
C16_QuietStageAnswersZero ==
    StageAsked /\ (\/ ~stages[call.stage].is_active
                   \/ call.a < stages[call.stage].activation_time)
        => call.value = 0

\* an active stage was asked for its derivative at a time before its activation
C16_Witness ==
    /\ call.op = "get_current_derivative"
    /\ stages[call.stage].is_active
    /\ call.a < stages[call.stage].activation_time
    /\ call.value = 0

-----------------------------------------------------------------------------
(* Properties of the physics engine. *)

\* C17, as stated: calculate_force returns a number, without raising, for every
\* distance >= 0 and every pair of currents, non-zero currents at distances below
\* dx/2 (0.0005 m) included.
C17_ForceIsTotal ==
    call.op = "calculate_force" /\ call.a >= 0 => call.outcome = "ok"

\* C18, as stated, for two fixed coils: of two
\* distances 0 <= d1 < d2 the smaller has the larger mutual inductance, whether both
\* lie in the near field or the two straddle the boundary max(length_a, length_b).
\* Two successive calls give the pair. The values are whole numbers of the model's
\* unit, so the order is read as >=: what fails it fails the strict order too.
C18_InductanceFallsWithDistance ==
    [][/\ call.op = "calculate_mutual_inductance" /\ call.outcome = "ok"
       /\ call'.op = "calculate_mutual_inductance" /\ call'.outcome = "ok"
       /\ call'.stage = call.stage
       /\ call.a < call'.a
       => call.value >= call'.value]_vars

-----------------------------------------------------------------------------
(* Properties of one step. *)

\* _step has run, inside run or on its own: the recorder holds one record more
StepTaken == Len(lists'.data) = Len(lists.data) + 1

\* C19: the record a step appends carries the time at the start of the step, the
\* position and the velocity of the capsule after the integration of that step,
\* and the force that integration used; it is made after the activation check and
\* the current induction of the step; the time advances by dt after the record,
\* in run only: a step on its own leaves the time as it is.
C19_StepRecordsThenTimeAdvances ==
    [][StepTaken =>
          /\ lists'.data[Len(lists'.data)].time = time
          /\ lists'.data[Len(lists'.data)].position = capsule'.position
          /\ lists'.data[Len(lists'.data)].velocity = capsule'.velocity
          /\ capsule' = UpdateKinematicsOf([capsule EXCEPT !.current = capsule'.current],
                                           lists'.data[Len(lists'.data)].force, dt)
          /\ lists'.data[Len(lists'.data)].capsule_current = capsule'.current
          /\ lists'.data[Len(lists'.data)].active_stages
                 = Cardinality({s \in StageIds : stages'[s].is_active})
          /\ time' = IF pc = "running" THEN time + dt ELSE time]_vars

\* a step on its own has moved the capsule under a force and left the time alone
C19_Witness ==
    /\ call.op = "_step"
    /\ time > 0
    /\ Len(lists.data) >= 2
    /\ lists.data[Len(lists.data)].time = time
    /\ lists.data[Len(lists.data)].force /= 0
    /\ lists.data[Len(lists.data)].position = capsule.position
    /\ lists.data[Len(lists.data)].position /= lists.data[Len(lists.data) - 1].position

\* the number of active stages, as a record counts them
ActiveCount(stgs) == Cardinality({s \in StageIds : stgs[s].is_active})

\* C20: a step, in whichever run, activates only inactive stages, giving them the
\* current time; a stage that is active stays active with the activation time it
\* has; so, as long as no stage has been reset since the last record (the stages
\* are no fewer active than that record counted), the record the step appends
\* counts no fewer active stages than the record before it.
C20_StepsOnlyActivate ==
    [][StepTaken =>
          /\ \A s \in StageIds :
                IF stages[s].is_active
                THEN /\ stages'[s].is_active
                     /\ stages'[s].activation_time = stages[s].activation_time
                ELSE stages'[s].is_active => stages'[s].activation_time = time
          /\ (/\ Len(lists.data) >= 1
              /\ ActiveCount(stages) >= lists.data[Len(lists.data)].active_stages)
                 => lists'.data[Len(lists'.data)].active_stages
                        >= lists.data[Len(lists.data)].active_stages]_vars

\* in a further run, with the records of the run before still in place, a stage
\* active since that earlier run is still active with its old activation time,
\* and the run's new record counts no fewer active stages than the one before it
C20_Witness ==
    /\ pc = "running"
    /\ Len(returned) >= 1
    /\ run_start.steps >= 1
    /\ Len(lists.data) > run_start.steps
    /\ \E s \in StageIds :
          stages[s].is_active /\ stages[s].activation_time < run_start.time
    /\ lists.data[Len(lists.data)].active_stages
           >= lists.data[Len(lists.data) - 1].active_stages
    /\ lists.data[Len(lists.data)].active_stages >= 1

-----------------------------------------------------------------------------
(* Properties of the force aggregation. *)

\* the drag term of one stage: -0.001 * velocity above the velocity threshold
DragOf(cap) ==
    IF Abs(cap.velocity) > VelocityThreshold THEN -TDiv(cap.velocity, DragDen) ELSE 0

\* what one stage adds to the total force as C21 states it: the electromagnetic
\* term behind the two current thresholds, the drag term behind neither
StatedStageForce(cap, fx, st, t) ==
    IF ~st.is_active THEN 0
    ELSE (IF Abs(GetCurrentOf(fx, st, t)) > StageCurrentThreshold
             /\ Abs(cap.current) > CapsuleCurrentThreshold
          THEN CalculateForce(fx.properties, cap.properties,
                              ClampedDistance(cap, fx.properties),
                              GetCurrentOf(fx, st, t), cap.current)
          ELSE 0)
         + DragOf(cap)

\* C21, as stated: the force of a step is the sum, over the active stages, of the
\* electromagnetic term (only when the stage current exceeds 0.1 A and the capsule
\* current exceeds 0.001 A) and of one drag term -0.001 * velocity when
\* |velocity| > 0.01 m/s, whatever the currents are.
C21_DragForEveryActiveStage ==
    [][StepTaken =>
          lists'.data[Len(lists'.data)].force =
              SumOver([s \in StageIds |->
                          StatedStageForce([capsule EXCEPT !.current = capsule'.current],
                                           StageFixed(s), stages'[s], time)],
                      StageIds)]_vars

-----------------------------------------------------------------------------
(* Properties of the kinematics. *)

\* the last step of the behaviour was a call of op by the caller
JustCalled(op) == call'.op = op /\ calls' = calls + 1

\* C22, as stated: apply_force(F, dt) sets the velocity to v0 + (F/mass)*dt and the
\* position to x0 + v0*dt + 0.5*(F/mass)*dt^2, v0 and x0 being the velocity and
\* the position before the call.
C22_ApplyForceMovesWithOldVelocity ==
    [][JustCalled("apply_force") =>
          /\ capsule'.velocity = capsule.velocity + TDiv(call'.a, capsule.mass) * call'.b
          /\ capsule'.position = capsule.position + capsule.velocity * call'.b
                 + TDiv(TDiv(call'.a, capsule.mass) * call'.b * call'.b, 2)]_vars

\* C23: update_kinematics(capsule, F, dt) sets the position to
\* x0 + v0*dt + 0.5*(F/mass)*dt^2 with the velocity v0 from before the call, and the
\* velocity to v0 + (F/mass)*dt, so that the momentum changes by F*dt; the mass,
\* the current and the geometry of the capsule stay as they are.
C23_UpdateKinematicsMovesWithOldVelocity ==
    [][JustCalled("update_kinematics") =>
          /\ capsule'.position = capsule.position + capsule.velocity * call'.b
                 + TDiv(TDiv(call'.a, capsule.mass) * call'.b * call'.b, 2)
          /\ capsule'.velocity = capsule.velocity + TDiv(call'.a, capsule.mass) * call'.b
          /\ capsule.mass * (capsule'.velocity - capsule.velocity) = call'.a * call'.b
          /\ capsule'.mass = capsule.mass
          /\ capsule'.current = capsule.current
          /\ capsule'.properties.turns = capsule.properties.turns
          /\ capsule'.properties.diameter = capsule.properties.diameter
          /\ capsule'.properties.length = capsule.properties.length
          /\ capsule'.properties.resistance = capsule.properties.resistance]_vars

\* update_kinematics was called on a capsule that was moving and carried a current
C23_Witness ==
    /\ call.op = "update_kinematics"
    /\ capsule.velocity - TDiv(call.a, capsule.mass) * call.b /= 0
    /\ capsule.current /= 0

-----------------------------------------------------------------------------
(* Properties of the distances of a step. *)

\* C24: in every step the separation of the capsule and an active stage is clamped
\* to at least 0.001 m before use, so every distance handed to the mutual
\* inductance, by the induction, the gradient or the force, is at least 0.0005 m:
\* none is negative (no validation error) and none is zero (no division by zero).
C24_DistancesStayPositive ==
    [][StepTaken =>
          \A s \in StageIds :
              stages'[s].is_active =>
                  /\ ClampedDistance(capsule, StageFixed(s).properties) >= MinDistance
                  /\ \A distance \in DistancesUsed(capsule, StageFixed(s).properties) :
                         distance >= HalfDx /\ ~NegativeDistance(distance)]_vars

\* inside a run, a step started with the capsule exactly at the position of an
\* active stage, and computed a force
C24_Witness ==
    /\ pc = "running"
    /\ run_start.steps >= 2
    /\ lists.data[Len(lists.data)].force /= 0
    /\ \E s \in StageIds :
          /\ stages[s].is_active
          /\ lists.data[Len(lists.data) - 1].position = StageArgs[s].position

-----------------------------------------------------------------------------
(* Properties of the record sequence. *)

\* C25, during run: a step of run appends exactly one record and leaves the
\* earlier records as they are, and from its second step on the new record is dt
\* later than the record before it.
C25_RunAppendsInTimeOrder ==
    [][pc = "running" /\ lists'.data /= lists.data =>
          /\ Len(lists'.data) = Len(lists.data) + 1
          /\ SubSeq(lists'.data, 1, Len(lists.data)) = lists.data
          /\ lists'.data[Len(lists'.data)].time = time
          /\ run_start.steps >= 1 =>
                 lists'.data[Len(lists'.data)].time = lists.data[Len(lists.data)].time + dt]_vars

\* C25, in the result: when run returns, the records its steps appended are the
\* last of the history, their times run from the time at which run started in
\* steps of dt, and the time, position, velocity, force and energy arrays each
\* hold one entry per record, in the order of the records.
C25_ArraysFollowTheSteps ==
    RunReturned =>
        /\ Len(returned[Len(returned)].records) >= run_start.steps
        /\ \A k \in 1..run_start.steps :
               GetTimeArray(returned[Len(returned)].records)
                   [Len(returned[Len(returned)].records) - run_start.steps + k]
                       = run_start.time + (k - 1) * dt
        /\ \A array \in {GetTimeArray(returned[Len(returned)].records),
                         GetPositionArray(returned[Len(returned)].records),
                         GetVelocityArray(returned[Len(returned)].records),
                         GetForceArray(returned[Len(returned)].records),
                         GetEnergyArray(returned[Len(returned)].records)} :
               Len(array) = Len(returned[Len(returned)].records)
        /\ \A i \in 1..Len(returned[Len(returned)].records) :
               /\ GetPositionArray(returned[Len(returned)].records)[i]
                      = returned[Len(returned)].records[i].position
               /\ GetVelocityArray(returned[Len(returned)].records)[i]
                      = returned[Len(returned)].records[i].velocity
               /\ GetForceArray(returned[Len(returned)].records)[i]
                      = returned[Len(returned)].records[i].force
               /\ GetEnergyArray(returned[Len(returned)].records)[i]
                      = returned[Len(returned)].records[i].kinetic_energy

\* C25: the two parts together, as one temporal formula
C25_AppendOnly == C25_RunAppendsInTimeOrder /\ []C25_ArraysFollowTheSteps

\* a further run has returned: its records follow those of the run before it,
\* and it made at least two steps
C25_Witness ==
    /\ RunReturned
    /\ run_start.steps >= 2
    /\ Len(returned[Len(returned)].records) > run_start.steps
    /\ run_start.time > 0

-----------------------------------------------------------------------------
(* Properties of a run that has nothing to do. *)

\* run has been entered with an empty recorder and has made no step, and its
\* maxTime is not positive or the capsule is already at the end of the tube
NothingToRun ==
    /\ pc = "running"
    /\ run_start.steps = 0
    /\ lists.data = <<>>
    /\ max_time <= 0 \/ capsule.position >= TubeLength

\* C26: run(maxTime) on an empty recorder, with maxTime <= 0 or the capsule already
\* at or past the tube length, makes no step and fails with the empty-state error
\* instead of returning a result; the time, the capsule and the stages are left as
\* they were when run was called, and the recorder holds the initial energy.
C26_NothingToRunRaises ==
    [][/\ JustCalled("run") =>
              /\ time' = time /\ capsule' = capsule /\ stages' = stages
              /\ lists' = lists
              /\ InitialEnergyOf(metadata') = TotalStoredEnergy
       /\ NothingToRun =>
              /\ pc' = "idle"
              /\ call'.op = "run" /\ call'.outcome = "ValueError"
              /\ results' = results /\ returned' = returned
              /\ time' = time /\ time = run_start.time
              /\ capsule' = capsule /\ stages' = stages
              /\ lists'.data = <<>>
              /\ \E p \in metadata' : p[1] = "initial_energy" /\ p[2] = run_start.energy]_vars

\* run failed on a capsule placed at the end of the tube, its maxTime positive
C26_Witness ==
    /\ call.op = "run"
    /\ call.outcome = "ValueError"
    /\ call.a > 0
    /\ capsule.position >= TubeLength
    /\ lists.data = <<>>
    /\ InitialEnergyOf(metadata) > 0

-----------------------------------------------------------------------------
(* Properties of run after reset. *)

\* run has just ended, with a result or with its error, and it had been called
\* right after reset
RunAfterResetEnded ==
    /\ call.op = "run"
    /\ pc = "idle"
    /\ run_start.after_reset

\* C27: run(T) called right after reset ends as run(T) ended on the service as it
\* was built: the same final velocity, final position, total time, initial energy
\* and records (or the same error).
C27_RunResetRunRepeats ==
    RunAfterResetEnded =>
        \A i \in 1..Len(fresh_runs) :
            fresh_runs[i].max_time = max_time =>
                IF call.outcome = "ValueError"
                THEN fresh_runs[i].raised
                ELSE /\ ~fresh_runs[i].raised
                     /\ fresh_runs[i].final_velocity = returned[Len(returned)].final_velocity
                     /\ fresh_runs[i].final_position = returned[Len(returned)].final_position
                     /\ fresh_runs[i].total_time = returned[Len(returned)].total_time
                     /\ fresh_runs[i].initial_energy = returned[Len(returned)].initial_energy
                     /\ fresh_runs[i].records = returned[Len(returned)].records

\* run(T), reset, run(T) on one service: both runs returned, the first as the
\* first call on the service as built, having moved the capsule and left it a
\* current
C27_Witness ==
    /\ RunAfterResetEnded
    /\ calls = 3
    /\ Len(returned) = 2
    /\ Len(fresh_runs) >= 1
    /\ fresh_runs[1].max_time = max_time
    /\ fresh_runs[1].record_count >= 2
    /\ fresh_runs[1].final_velocity /= 0
    /\ fresh_runs[1].records[fresh_runs[1].record_count].capsule_current /= 0

-----------------------------------------------------------------------------
(* A run called right after a run that returned, with no reset in between.  *)

\* run has just been entered, and the call before it was a run that returned
RunAgainEntered == pc = "running" /\ run_start.steps = 0 /\ run_start.after_run

\* such a run has ended
RunAgainEnded == call.op = "run" /\ pc = "idle" /\ run_start.after_run

\* C28, a run after a run that left the capsule at or past the end of the tube:
\* it executes no step and goes straight to its return, with the elapsed time,
\* the capsule, the stages and the records as they were, and the result it
\* returns has the final values and the records of the result before it.
C28_NothingMoreAfterTheTube ==
    [][RunAgainEntered /\ capsule.position >= TubeLength =>
          /\ pc' = "idle"
          /\ call'.outcome = "returned"
          /\ run_start'.steps = 0
          /\ time' = time /\ capsule' = capsule /\ stages' = stages
          /\ lists'.data = lists.data
          /\ returned' = Append(returned, returned[Len(returned)])]_vars

\* C28, a run after a run that stopped on its time limit, with time left under
\* the new limit: its first step is a step from the time and the state the run
\* before left, and its record is appended to the records already there.
C28_ContinuesAfterTheTimeLimit ==
    [][RunAgainEntered /\ capsule.position < TubeLength /\ time < max_time =>
          /\ Step(capsule, stages, time, dt)
          /\ time' = time + dt
          /\ Len(lists'.data) = Len(lists.data) + 1
          /\ SubSeq(lists'.data, 1, Len(lists.data)) = lists.data
          /\ lists'.data[Len(lists'.data)].time = time]_vars

\* C28, in the result of such a run: the records of the result before it come
\* first and unchanged, one record follows for each step of this run, and the
\* elapsed time is the time at which the run started plus one dt for each step.
C28_ResultExtendsTheOneBefore ==
    RunAgainEnded /\ call.outcome = "returned" =>
        /\ Len(returned) >= 2
        /\ Len(returned[Len(returned)].records)
               = Len(returned[Len(returned) - 1].records) + run_start.steps
        /\ SubSeq(returned[Len(returned)].records, 1,
                  Len(returned[Len(returned) - 1].records))
               = returned[Len(returned) - 1].records
        /\ time = run_start.time + run_start.steps * dt

\* C28: a run after a run that ended at the end of the tube does nothing and
\* returns the same result again, whatever its maxTime; a run after a run that
\* ended on its time limit continues from the time and the state it finds and
\* appends to the same records; and entering run changes neither the time, the
\* capsule, the stages nor the records.
C28_RunAgainWithoutReset ==
    /\ C28_NothingMoreAfterTheTube
    /\ C28_ContinuesAfterTheTimeLimit
    /\ []C28_ResultExtendsTheOneBefore
    /\ [][JustCalled("run") /\ run_start'.after_run =>
              UNCHANGED <<time, capsule, stages>> /\ lists'.data = lists.data]_vars

\* update_position, then a run whose steps carry the capsule past the end of the
\* tube, then a run that has returned without a step
C28_Witness ==
    /\ RunAgainEnded
    /\ call.outcome = "returned"
    /\ run_start.steps = 0
    /\ capsule.position >= TubeLength
    /\ capsule.velocity /= 0
    /\ Len(returned) = 2
    /\ Len(returned[2].records) >= 2

\* a run that has stopped on its time limit, then a run with a later limit that
\* has made steps and returned
C28_ContinuedRun ==
    /\ RunAgainEnded
    /\ call.outcome = "returned"
    /\ run_start.steps >= 2
    /\ run_start.time > 0
    /\ capsule.position < TubeLength
    /\ capsule.velocity /= 0

-----------------------------------------------------------------------------
(* The activation flag and the activation time of a stage. *)

\* the stages the steps of the current run have activated
ActivatedByTheRun == IF call.op = "run" THEN run_start.activated ELSE {}

\* C29: in every reachable state, whatever activate, stage reset, run steps
\* and reset have been applied, a stage is active exactly when its activation
\* time is set; and a stage that a step of run has activated is, in every later
\* state of that run, active with an activation time that is not after the
\* current simulation time.
C29_ActiveIffActivationTimeSet ==
    /\ \A s \in StageIds : stages[s].is_active <=> stages[s].activation_time /= None
    /\ \A s \in ActivatedByTheRun :
           /\ stages[s].is_active
           /\ stages[s].activation_time /= None
           /\ stages[s].activation_time <= time

\* after another call, a run activates a stage after its first step and makes
\* further steps, while another stage is inactive with no activation time
C29_Witness ==
    /\ pc = "running"
    /\ calls >= 2
    /\ \E s \in ActivatedByTheRun :
           /\ stages[s].activation_time > run_start.time
           /\ stages[s].activation_time < time - dt
    /\ \E s \in StageIds : ~stages[s].is_active /\ stages[s].activation_time = None

-----------------------------------------------------------------------------
(* A run that starts with the capsule at rest and away from every stage.    *)

\* run was entered with a capsule of zero velocity and zero current that no
\* stage had within its activation distance
StartedAtRest ==
    /\ call.op = "run"
    /\ run_start.capsule.velocity = 0
    /\ run_start.capsule.current = 0
    /\ \A s \in StageIds :
           Abs(run_start.capsule.position - StageFixed(s).properties.position)
               > ActivationDistance(StageFixed(s).properties)

\* the records the steps of the current run have appended
RecordsOfTheRun ==
    SubSeq(lists.data, Len(lists.data) - run_start.steps + 1, Len(lists.data))

\* what the run is said to do: its steps activate no stage, each of its records
\* has force 0 and no active stage, the capsule keeps its position, velocity and
\* current, and the run ends with the time limit reached and the capsule short
\* of the end of the tube
NothingHappens ==
    /\ run_start.activated = {}
    /\ \A i \in 1..Len(RecordsOfTheRun) :
           RecordsOfTheRun[i].force = 0 /\ RecordsOfTheRun[i].active_stages = 0
    /\ capsule.position = run_start.capsule.position
    /\ capsule.velocity = run_start.capsule.velocity
    /\ capsule.current = run_start.capsule.current
    /\ pc = "idle" => time >= max_time /\ capsule.position < TubeLength

\* C30 as stated: if run starts with the capsule at zero velocity and zero
\* current and no stage within its activation distance, nothing happens.
C30_AtRestNothingHappens == StartedAtRest => NothingHappens

\* C30, amended: if run starts with the capsule inside the tube at zero velocity
\* and zero current, no stage within its activation distance and no stage
\* already active, then no stage is ever activated, every record of the run has
\* force 0 and active-stage count 0, the capsule's position, velocity and
\* current never change, and the run ends on the time limit.
C30_AtRestAndAllInactiveNothingHappens ==
    /\ StartedAtRest
    /\ \A s \in StageIds : ~run_start.stages[s].is_active
    /\ run_start.capsule.position < TubeLength
    => NothingHappens

\* a run entered at rest, away from the stages and with no stage active, that
\* has made steps and returned on its time limit
C30_Witness ==
    /\ StartedAtRest
    /\ \A s \in StageIds : ~run_start.stages[s].is_active
    /\ pc = "idle"
    /\ call.outcome = "returned"
    /\ run_start.steps >= 3
    /\ time >= max_time

====
